---- MODULE Spec2Model ----
(***************************************************************************)
(* Localization catalog of the support-bot admin panel: the translations   *)
(* table (models.py, Translation), the handlers that write it              *)
(* (routes/save_translations.py, routes/gpt_translations.py) and the       *)
(* handlers that read it (main.py, show_translations, translate_missing).  *)
(*                                                                         *)
(* The settings page's toggle_button (routes/settings.py) and its table    *)
(* (models.py, ButtonVisibility) are modelled beside them.                 *)
(*                                                                         *)
(* A text is a sequence of symbols; a key and a language code are atoms.   *)
(* The table is the sequence of its rows in primary-key (id) order.        *)
(*                                                                         *)
(* The handlers are coroutines of one event loop: a handler that writes    *)
(* the table is one action per stretch between two awaits, so that other   *)
(* requests are served between its SELECT, its INSERTs and its commit. A   *)
(* row is in the table from its INSERT on and is read by other sessions    *)
(* from its commit on. A handler that only reads the table is one action,  *)
(* taken at its SELECT of the translations.                                *)
(***************************************************************************)
EXTENDS Integers, Sequences, FiniteSets, TLC

\* rows: the translations table, its rows [key, lang, text] in id order
\* last: the request served last and its response (op, inputs, status, body)
\* tx:   per request slot, the request it is serving and where that stands
\*       between two awaits: the handler (pc), the batch it has read (for
\*       an update, the row as its SELECT loaded it), the
\*       mapping it is inserting and the next entry, the rows it has inserted
\*       and not yet committed, the row it has loaded for an update
\* buttons: the button_visibility table, its rows [button_key, is_visible] in
\*       id order
\* toggles: per request slot, where its toggle_button call stands: idle, or
\*       past its SELECT with the row it found (or none)
VARIABLES rows, last, tx, buttons, toggles

vars == <<rows, last, tx, buttons, toggles>>

\* the state of the settings page
settings == <<buttons, toggles>>

(* ------------------------------ bounds --------------------------------- *)

\* rows ever inserted into the translations table
MaxRows == 2
\* the same, where the table holds a row of every language of the directory
MaxCatalog == 3
\* entries of the mapping of one save request
MaxBatch == 2
\* lines of one response of the external capability
MaxLines == 1

(* ------------------------------ inputs --------------------------------- *)

Keys == {"welcome", "greeting", "bye"}

\* language codes a save request may carry
SaveLangs == {"ru", "en"}

\* language codes the other requests may carry; "xx" is not in the directory
LangCodes == {"ru", "en", "xx"}

\* values of the "add" query parameter; "" stands for its absence
AddParams == {"", "ru", "en", "de", "xx"}

\* texts a save request may carry: whitespace-only and two non-blank texts
Texts == {<<" ">>, <<"a">>, <<"b">>}

Procs == {1, 2}

(* ------------------------------- text ---------------------------------- *)

IsSpace(c) == c \in {" ", "\n", "\t"}

RECURSIVE lstrip(_)
lstrip(t) ==
    IF t = << >> THEN << >>
    ELSE IF IsSpace(Head(t)) THEN lstrip(Tail(t)) ELSE t

RECURSIVE rstrip(_)
rstrip(t) ==
    IF t = << >> THEN << >>
    ELSE IF IsSpace(t[Len(t)]) THEN rstrip(SubSeq(t, 1, Len(t) - 1)) ELSE t

\* str.strip()
strip(t) == rstrip(lstrip(t))

\* str.replace(old, new) for a one-symbol old
RECURSIVE replace(_, _, _)
replace(t, old, new) ==
    IF t = << >> THEN << >>
    ELSE (IF Head(t) = old THEN new ELSE <<Head(t)>>) \o replace(Tail(t), old, new)

(* ------------------------- language directory -------------------------- *)

\* the languages table, in SELECT order (that of its primary key, code)
all_langs ==
    << [code |-> "de", name_ru |-> <<"N", "e">>, emoji |-> ""],
       [code |-> "en", name_ru |-> <<"A", "n">>, emoji |-> "FLAG_EN"],
       [code |-> "ru", name_ru |-> <<"R", "u">>, emoji |-> "FLAG_RU"] >>

\* flags.json
flags == [c \in {"ru", "en"} |-> IF c = "ru" THEN "FLAG_RU" ELSE "FLAG_EN"]

\* str.upper() of a language code, as text
upper(code) ==
    CASE code = "ru" -> <<"R", "U">>
      [] code = "en" -> <<"E", "N">>
      [] code = "de" -> <<"D", "E">>
      [] OTHER -> <<"X", "X">>

\* the value standing for Python's None where a Language row is expected
None == [code |-> "None", name_ru |-> << >>, emoji |-> ""]

\* session.get(Language, code) / scalar_one_or_none(): the row, or None
get_language(code) ==
    IF \E i \in DOMAIN all_langs : all_langs[i].code = code
    THEN all_langs[CHOOSE i \in DOMAIN all_langs : all_langs[i].code = code]
    ELSE None

(* --------------------------- request mappings -------------------------- *)

KeyOrder == <<"welcome", "greeting", "bye">>

KeyIndex(k) == CHOOSE i \in DOMAIN KeyOrder : KeyOrder[i] = k

Entries(ks, ts) == [key : ks, text : ts]

\* dict[str, str] bodies: sequences of entries with distinct keys
MappingsOver(ks, ts) ==
    UNION { { m \in [1..n -> Entries(ks, ts)] :
                \A i, j \in 1..n : i < j => KeyIndex(m[i].key) < KeyIndex(m[j].key) }
            : n \in 0..MaxBatch }

(* --------------------------- translations table ------------------------ *)

\* INSERT IGNORE INTO translations (key, lang, text): the table has no unique
\* index on (key, lang), only the autoincrement id, so nothing is ignored
insert_ignore(t, key, lang, text) ==
    Append(t, [key |-> key, lang |-> lang, text |-> text])

\* the rows at the positions that are not in `open`, in id order
RECURSIVE without(_, _, _)
without(t, open, i) ==
    IF i > Len(t) THEN << >>
    ELSE (IF i \in open THEN << >> ELSE <<t[i]>>) \o without(t, open, i + 1)

\* SELECT ... FROM translations: the rows of committed transactions
committed(t, x) == without(t, UNION { x[p].own : p \in Procs }, 1)

(* ------------------------------- dicts --------------------------------- *)

\* a Python dict[str, str]: its entries in insertion order, keys distinct
dict_has(d, k) == \E i \in DOMAIN d : d[i].key = k

dict_get(d, k) == d[CHOOSE i \in DOMAIN d : d[i].key = k].text

\* d[k] = v
dict_set(d, k, v) ==
    IF dict_has(d, k)
    THEN [i \in DOMAIN d |-> IF d[i].key = k THEN [key |-> k, text |-> v] ELSE d[i]]
    ELSE Append(d, [key |-> k, text |-> v])

dict_keys(d) == { d[i].key : i \in DOMAIN d }

(* ----------------------- external translation call --------------------- *)

\* the sentinel "{flag}" is one symbol of a text
Sentinel == "{flag}"

\* keys and texts of the lines a capability response may hold
RespKeys == {"greeting", "bye"}

RespTexts == {<<" ">>, <<" ", "a", "{flag}">>}

\* a line of the response: without a colon, or "k: v"
RespLines ==
    {[colon |-> FALSE, k |-> "", v |-> <<"a">>]}
    \cup [colon : {TRUE}, k : RespKeys, v : RespTexts]

\* client.chat.completions.create raised, or returned no text content
Failure == [ok |-> FALSE, lines |-> << >>]

\* outcomes of one call of the external capability
Responses ==
    {Failure} \cup
    { [ok |-> TRUE, lines |-> ls] :
        ls \in UNION { [1..n -> RespLines] : n \in 0..MaxLines } }

\* flags.items(): the codes of flags.json in file order
FlagOrder == <<"ru", "en">>

\* f" {flag}" in text
has_after_space(text, flag) ==
    \E i \in DOMAIN text : i > 1 /\ text[i] = flag /\ text[i - 1] = " "

\* text.replace(f" {flag}", " {flag}"): every flag that follows a space
replace_after_space(text, flag) ==
    [i \in DOMAIN text |->
        IF i > 1 /\ text[i] = flag /\ text[i - 1] = " " THEN Sentinel ELSE text[i]]

\* text.endswith(flag)
endswith(text, flag) == text # << >> /\ text[Len(text)] = flag

\* the loop of patch_flag from the i-th flag on
RECURSIVE patch_flag_from(_, _)
patch_flag_from(text, i) ==
    IF i > Len(FlagOrder) THEN text
    ELSE LET flag == flags[FlagOrder[i]]
         IN IF has_after_space(text, flag) THEN replace_after_space(text, flag)
            ELSE IF endswith(text, flag) THEN replace(text, flag, <<Sentinel>>)
            ELSE patch_flag_from(text, i + 1)

patch_flag(text) == patch_flag_from(text, 1)

\* prompt_lines: one "key: safe_text" line per entry of ru_translations
prompt_lines(ru_translations) ==
    [i \in DOMAIN ru_translations |->
        [key |-> ru_translations[i].key, text |-> patch_flag(ru_translations[i].text)]]

\* one request per entry of the batch, each with a single line
capability_calls_per_key(ru_translations) ==
    [i \in DOMAIN ru_translations |-> <<prompt_lines(ru_translations)[i]>>]

\* the requests one call of translate_with_gpt sends to the capability, each
\* with the lines of its user message
capability_calls(ru_translations) == <<prompt_lines(ru_translations)>>

\* flags.get(target_lang, target_lang.upper())
flag_of(target_lang) ==
    IF target_lang \in DOMAIN flags THEN <<flags[target_lang]>> ELSE upper(target_lang)

\* str.replace(old, new, 1) for a one-symbol old: the first occurrence only
RECURSIVE replace_first(_, _, _)
replace_first(t, old, new) ==
    IF t = << >> THEN << >>
    ELSE IF Head(t) = old THEN new \o Tail(t)
    ELSE <<Head(t)>> \o replace_first(Tail(t), old, new)

\* the decoding of a line where only the first sentinel gets the flag
decode_first(v, target_lang) == replace_first(strip(v), Sentinel, flag_of(target_lang))

\* final_text of a response line: v.strip().replace("{flag}", <flag>)
decode(v, target_lang) == replace(strip(v), Sentinel, flag_of(target_lang))

\* the parse loop of translate_with_gpt over the lines of the response
RECURSIVE parse_lines(_, _, _)
parse_lines(result, lines, target_lang) ==
    IF lines = << >> THEN result
    ELSE IF Head(lines).colon
         THEN parse_lines(
                 dict_set(result, Head(lines).k, decode(Head(lines).v, target_lang)),
                 Tail(lines), target_lang)
         ELSE parse_lines(result, Tail(lines), target_lang)

\* translate_with_gpt where every key of the batch gets a text: the
\* capability's when the response holds the key, else the source text
translate_with_gpt_fill(ru_translations, target_lang, resp) ==
    LET got == parse_lines(<< >>, resp.lines, target_lang)
        rest == SelectSeq(ru_translations, LAMBDA e : ~dict_has(got, e.key))
    IN got \o rest

\* the mapping translate_with_gpt returns for a response that arrived
translate_with_gpt(ru_translations, target_lang, resp) ==
    parse_lines(<< >>, resp.lines, target_lang)

(* ------------------------- reading the catalog ------------------------- *)

keys_of(t) == { t[i].key : i \in DOMAIN t }

langs_of(t, k) == { t[i].lang : i \in { j \in DOMAIN t : t[j].key = k } }

\* translations[k][l] after the loop "translations[row.key][row.lang] = row.text"
text_of(t, k, l) ==
    LET at == { i \in DOMAIN t : t[i].key = k /\ t[i].lang = l }
    IN t[CHOOSE i \in at : \A j \in at : j <= i].text

translations(t) ==
    [k \in keys_of(t) |-> [l \in langs_of(t, k) |-> text_of(t, k, l)]]

used_lang_codes(t) == { t[i].lang : i \in DOMAIN t }

\* the keys of a dict filled row by row: distinct, in order of first appearance
RECURSIVE key_list(_)
key_list(t) ==
    IF t = << >> THEN << >>
    ELSE LET init == key_list(SubSeq(t, 1, Len(t) - 1))
             k == t[Len(t)].key
         IN IF \E i \in DOMAIN init : init[i] = k THEN init ELSE Append(init, k)

\* the key list without the "welcome" filter
filtered_keys_unfiltered(t) == key_list(t)

\* [k for k in translations if k != "welcome"]
filtered_keys(t) == SelectSeq(key_list(t), LAMBDA k : k # "welcome")

total_keys(t) == Len(filtered_keys(t))

(* --------------------------- languages to show ------------------------- *)

\* code points of the symbols of a display name, ascending
Alphabet == <<"A", "N", "R", "e", "n", "u">>

Ord(c) == CHOOSE i \in DOMAIN Alphabet : Alphabet[i] = c

\* a < b for str
RECURSIVE str_lt(_, _)
str_lt(a, b) ==
    IF b = << >> THEN FALSE
    ELSE IF a = << >> THEN TRUE
    ELSE IF Head(a) = Head(b) THEN str_lt(Tail(a), Tail(b))
    ELSE Ord(Head(a)) < Ord(Head(b))

\* (a.code != "ru", a.name_ru) < (b.code != "ru", b.name_ru)
sort_key_lt(a, b) ==
    \/ a.code = "ru" /\ b.code # "ru"
    \/ (a.code = "ru") = (b.code = "ru") /\ str_lt(a.name_ru, b.name_ru)

\* sorted(ls, key=...): stable
RECURSIVE sorted(_)
sorted(ls) ==
    IF ls = << >> THEN << >>
    ELSE LET init == sorted(SubSeq(ls, 1, Len(ls) - 1))
             x == ls[Len(ls)]
             n == Cardinality({ i \in DOMAIN init : ~sort_key_lt(x, init[i]) })
         IN SubSeq(init, 1, n) \o <<x>> \o SubSeq(init, n + 1, Len(init))

\* next((l for l in all_langs if l.code == selected_code), None)
selected_lang(selected_code) == get_language(selected_code)

\* the languages shown when the "add" parameter is not looked at
langs_used_only(t, selected_code) ==
    sorted(SelectSeq(all_langs, LAMBDA l : l.code \in used_lang_codes(t)))

\* the languages shown, in the order of the directory
langs_unsorted(t, selected_code) ==
    LET sel == selected_lang(selected_code)
    IN IF sel # None
       THEN SelectSeq(all_langs, LAMBDA l : l.code = "ru")
            \o (IF sel.code # "ru" THEN <<sel>> ELSE << >>)
       ELSE SelectSeq(all_langs, LAMBDA l : l.code \in used_lang_codes(t))

\* the languages shown, in display order
langs(t, selected_code) ==
    LET sel == selected_lang(selected_code)
    IN sorted(
         IF sel # None
         THEN SelectSeq(all_langs, LAMBDA l : l.code = "ru")
              \o (IF sel.code # "ru" THEN <<sel>> ELSE << >>)
         ELSE SelectSeq(all_langs, LAMBDA l : l.code \in used_lang_codes(t)))

lang_codes(ls) == { ls[i].code : i \in DOMAIN ls }

(* ------------------------------ coverage ------------------------------- *)

\* the filled count taken over every key, "welcome" included
filled_of_all_keys(t, code) ==
    Cardinality({ k \in keys_of(t) : code \in langs_of(t, k) })

\* sum(1 for k in filtered_keys if code in translations[k])
filled_of(t, code) ==
    Cardinality({ i \in DOMAIN filtered_keys(t) : code \in langs_of(t, filtered_keys(t)[i]) })

filled_count(t, selected_code) ==
    [c \in lang_codes(langs(t, selected_code)) |-> filled_of(t, c)]

missing_count(t, selected_code) ==
    [c \in lang_codes(langs(t, selected_code)) |-> total_keys(t) - filled_of(t, c)]

(* ------------------------------ handlers ------------------------------- *)

\* a request slot that is serving nothing
Idle == [pc |-> "idle", lang |-> "", arg |-> << >>, next |-> 1, own |-> {},
         batch |-> << >>, at |-> 0]

\* POST /translations/save up to the first await: the session is opened
save_begin(p, lang, translations_arg) ==
    /\ tx[p].pc = "idle"
    /\ tx' = [tx EXCEPT ![p] = [pc |-> "save", lang |-> lang, arg |-> translations_arg,
                                next |-> 1, own |-> {}, batch |-> << >>, at |-> 0]]
    /\ UNCHANGED <<rows, last>>
    /\ UNCHANGED settings

\* {row.key: row.text for row in ru_rows}
RECURSIVE ru_dict(_)
ru_dict(t) ==
    IF t = << >> THEN << >>
    ELSE LET init == ru_dict(SubSeq(t, 1, Len(t) - 1))
             r == t[Len(t)]
         IN IF r.lang = "ru" THEN dict_set(init, r.key, r.text) ELSE init

\* what a handler's call of translate_with_gpt exchanged with the capability:
\* the requests sent and the outcome resp of the call
exchange(batch, resp) ==
    [calls |-> Len(capability_calls(batch)), sent |-> capability_calls(batch),
     resp |-> resp, batch |-> batch]

\* POST /translate_with_gpt that looks the language up after the translation
gpt_translation_unknown_late(lang_code) ==
    /\ get_language(lang_code) = None
    /\ last' = [op |-> "gpt", lang |-> lang_code, status |-> 500,
                calls |-> Len(capability_calls(ru_dict(committed(rows, tx))))]
    /\ UNCHANGED <<rows, tx>>
    /\ UNCHANGED settings

\* POST /translate_with_gpt with a language code that is not in the directory:
\* HTTPException(404) is raised inside the try and caught as Exception
gpt_translation_unknown(lang_code) ==
    /\ get_language(lang_code) = None
    /\ last' = [op |-> "gpt", lang |-> lang_code, status |-> 500, calls |-> 0]
    /\ UNCHANGED <<rows, tx>>
    /\ UNCHANGED settings

\* POST /translate_with_gpt up to the await of translate_with_gpt: the language
\* is found, the "ru" rows are selected and the batch is built from them
gpt_select(p, lang_code) ==
    LET lang == get_language(lang_code)
    IN /\ tx[p].pc = "idle"
       /\ lang # None
       /\ tx' = [tx EXCEPT ![p] =
                   [pc |-> "translate", lang |-> lang.code, arg |-> << >>,
                    next |-> 1, own |-> {},
                    batch |-> ru_dict(committed(rows, tx)), at |-> 0]]
       /\ UNCHANGED <<rows, last>>
       /\ UNCHANGED settings

\* the return of translate_with_gpt where a failure of the capability is
\* answered 500 after the first source text is stored under the target language
gpt_reply_fallback(p, resp) ==
    /\ tx[p].pc = "translate"
    /\ IF ~resp.ok
       THEN /\ rows' = IF tx[p].batch = << >> THEN rows
                       ELSE insert_ignore(rows, tx[p].batch[1].key, tx[p].lang,
                                          tx[p].batch[1].text)
            /\ last' = [op |-> "gpt", lang |-> tx[p].lang, status |-> 500]
                          @@ exchange(tx[p].batch, resp)
            /\ tx' = [tx EXCEPT ![p] = Idle]
       ELSE /\ tx' = [tx EXCEPT ![p].pc = "gpt",
                                ![p].arg = translate_with_gpt(tx[p].batch, tx[p].lang, resp)]
            /\ UNCHANGED <<rows, last>>
    /\ UNCHANGED settings

\* the return of translate_with_gpt: the capability's failure is raised, caught
\* and answered 500; else the mapping parsed from the response is to be inserted
gpt_reply(p, resp) ==
    /\ tx[p].pc = "translate"
    /\ IF ~resp.ok
       THEN /\ last' = [op |-> "gpt", lang |-> tx[p].lang, status |-> 500]
                          @@ exchange(tx[p].batch, resp)
            /\ tx' = [tx EXCEPT ![p] = Idle]
       ELSE /\ tx' = [tx EXCEPT ![p].pc = "gpt",
                                ![p].arg = translate_with_gpt(tx[p].batch, tx[p].lang, resp)]
            /\ UNCHANGED last
    /\ UNCHANGED rows
    /\ UNCHANGED settings

\* one round of the insert loop without its blank test
insert_step_no_skip(p) ==
    LET e == tx[p].arg[tx[p].next]
    IN /\ tx[p].pc \in {"save", "gpt"}
       /\ tx[p].next <= Len(tx[p].arg)
       /\ rows' = insert_ignore(rows, e.key, tx[p].lang, e.text)
       /\ tx' = [tx EXCEPT ![p].next = @ + 1,
                           ![p].own = @ \cup {Len(rows) + 1}]
       /\ UNCHANGED last
       /\ UNCHANGED settings

\* one round of the insert loop of both commit handlers: the blank test, then
\* await session.execute(stmt)
insert_step(p) ==
    LET e == tx[p].arg[tx[p].next]
    IN /\ tx[p].pc \in {"save", "gpt"}
       /\ tx[p].next <= Len(tx[p].arg)
       /\ IF strip(e.text) = << >>
          THEN /\ tx' = [tx EXCEPT ![p].next = @ + 1]
               /\ UNCHANGED rows
          ELSE /\ rows' = insert_ignore(rows, e.key, tx[p].lang, e.text)
               /\ tx' = [tx EXCEPT ![p].next = @ + 1,
                                   ![p].own = @ \cup {Len(rows) + 1}]
       /\ UNCHANGED last
       /\ UNCHANGED settings

\* await session.commit() of both commit handlers, and the response
commit(p) ==
    /\ tx[p].pc \in {"save", "gpt"}
    /\ tx[p].next > Len(tx[p].arg)
    /\ tx' = [tx EXCEPT ![p] = Idle]
    /\ last' = IF tx[p].pc = "save"
               THEN [op |-> "save", lang |-> tx[p].lang, arg |-> tx[p].arg,
                     status |-> 200, saved |-> Len(tx[p].arg)]
               ELSE [op |-> "gpt", lang |-> tx[p].lang, status |-> 200, calls |-> 1,
                     batch |-> tx[p].batch, arg |-> tx[p].arg,
                     added |-> Len(tx[p].arg)]
    /\ UNCHANGED rows
    /\ UNCHANGED settings

\* a position of the table after the rows at the positions `gone` have left it
shift(i, gone) == i - Cardinality({ j \in gone : j < i })

\* the positions of another transaction's rows after the rows at the
\* positions `gone` have left the table
shifted(own, gone) == { shift(i, gone) : i \in own }

\* a failing insert where every statement executed before it stays in the table
insert_fails_autocommit(p) ==
    LET e == tx[p].arg[tx[p].next]
    IN /\ tx[p].pc \in {"save", "gpt"}
       /\ tx[p].next <= Len(tx[p].arg)
       /\ strip(e.text) # << >>
       /\ UNCHANGED rows
       /\ tx' = [tx EXCEPT ![p] = Idle]
       /\ last' = [op |-> tx[p].pc, lang |-> tx[p].lang, arg |-> tx[p].arg,
                   status |-> 500, inserted |-> Cardinality(tx[p].own)]
       /\ UNCHANGED settings

\* await session.execute(stmt) raises: the session is closed without a
\* commit, which rolls its inserts back, and the handler answers 500
insert_fails(p) ==
    LET e == tx[p].arg[tx[p].next]
    IN /\ tx[p].pc \in {"save", "gpt"}
       /\ tx[p].next <= Len(tx[p].arg)
       /\ strip(e.text) # << >>
       /\ rows' = without(rows, tx[p].own, 1)
       /\ tx' = [q \in Procs |->
                   IF q = p THEN Idle
                   ELSE [tx[q] EXCEPT !.own = shifted(@, tx[p].own),
                                      !.at = shift(@, tx[p].own)]]
       /\ last' = [op |-> tx[p].pc, lang |-> tx[p].lang, arg |-> tx[p].arg,
                   status |-> 500, inserted |-> Cardinality(tx[p].own)]
       /\ UNCHANGED settings

\* {k: translations[k]["ru"] for k in filtered_keys if "ru" in translations[k]}
ru_texts_shown(t) ==
    LET ks == SelectSeq(filtered_keys(t), LAMBDA k : "ru" \in langs_of(t, k))
    IN [i \in DOMAIN ks |-> [key |-> ks[i], text |-> text_of(t, ks[i], "ru")]]

\* what show_translations hands to the template, less the preview
coverage_view(t, selected_code) ==
    LET ls == langs(t, selected_code)
    IN [op |-> "show", add |-> selected_code, status |-> 200,
        total_keys |-> total_keys(t),
        langs |-> [i \in DOMAIN ls |-> ls[i].code],
        filled_count |-> filled_count(t, selected_code),
        missing_count |-> missing_count(t, selected_code)]

\* GET /translations without a usable "add" parameter: no preview
show_translations_plain(selected_code) ==
    /\ selected_lang(selected_code) = None
    /\ last' = coverage_view(committed(rows, tx), selected_code)
                 @@ [calls |-> 0, temp_translations |-> << >>]
    /\ UNCHANGED <<rows, tx>>
    /\ UNCHANGED settings

\* the preview of GET /translations?add=<selected_code> written to the table
show_translations_persisting(selected_code, resp) ==
    LET t == committed(rows, tx)
        sel == selected_lang(selected_code)
        batch == ru_texts_shown(t)
    IN /\ sel # None
       /\ IF ~resp.ok
          THEN /\ last' = [op |-> "show", add |-> selected_code, status |-> 500]
                             @@ exchange(batch, resp)
               /\ UNCHANGED rows
          ELSE /\ last' = coverage_view(t, selected_code)
                             @@ [temp_translations |->
                                   translate_with_gpt(batch, sel.code, resp)]
                             @@ exchange(batch, resp)
               /\ rows' = LET temp == translate_with_gpt(batch, sel.code, resp)
                          IN IF temp = << >> THEN rows
                             ELSE insert_ignore(rows, temp[1].key, sel.code,
                                                temp[1].text)
       /\ UNCHANGED tx
       /\ UNCHANGED settings

\* GET /translations?add=<selected_code> for a language of the directory
show_translations(selected_code, resp) ==
    LET t == committed(rows, tx)
        sel == selected_lang(selected_code)
        batch == ru_texts_shown(t)
    IN /\ sel # None
       /\ IF ~resp.ok
          THEN last' = [op |-> "show", add |-> selected_code, status |-> 500]
                         @@ exchange(batch, resp)
          ELSE last' = coverage_view(t, selected_code)
                         @@ [temp_translations |->
                               translate_with_gpt(batch, sel.code, resp)]
                         @@ exchange(batch, resp)
       /\ UNCHANGED <<rows, tx>>
       /\ UNCHANGED settings

\* [key for key, langs in existing.items() if "ru" in langs and lang not in langs]
missing_keys(t, lang) ==
    SelectSeq(key_list(t),
              LAMBDA k : "ru" \in langs_of(t, k) /\ lang \notin langs_of(t, k))

\* the text of the first row with this key and lang "ru"
first_ru_text(t, k) ==
    LET at == { i \in DOMAIN t : t[i].key = k /\ t[i].lang = "ru" }
    IN t[CHOOSE i \in at : \A j \in at : i <= j].text

\* ru_texts of translate_missing
ru_texts_missing(t, lang) ==
    LET ks == missing_keys(t, lang)
    IN [i \in DOMAIN ks |-> [key |-> ks[i], text |-> first_ru_text(t, ks[i])]]

\* GET /translations/translate_missing?lang=<lang>, language not in the directory
translate_missing_unknown(lang) ==
    /\ get_language(lang) = None
    /\ last' = [op |-> "missing", lang |-> lang, status |-> 404, calls |-> 0]
    /\ UNCHANGED <<rows, tx>>
    /\ UNCHANGED settings

\* GET /translations/translate_missing?lang=<lang>
translate_missing(lang, resp) ==
    LET t == committed(rows, tx)
        batch == ru_texts_missing(t, lang)
    IN /\ get_language(lang) # None
       /\ IF ~resp.ok
          THEN last' = [op |-> "missing", lang |-> lang, status |-> 500]
                         @@ exchange(batch, resp)
          ELSE last' = [op |-> "missing", lang |-> lang, status |-> 200,
                        translations |-> translate_with_gpt(batch, lang, resp)]
                         @@ exchange(batch, resp)
       /\ UNCHANGED <<rows, tx>>
       /\ UNCHANGED settings

\* the positions of the rows a SELECT of the pair (key, lang) returns
selected(key, lang) ==
    { i \in DOMAIN rows :
        /\ rows[i].key = key /\ rows[i].lang = lang
        /\ \A q \in Procs : i \notin tx[q].own }

\* POST /update up to the return of its SELECT: scalar_one_or_none() raises
\* MultipleResultsFound when several rows hold the pair (answered 500), gives
\* None when no row holds it (404), else the one row is loaded, its text with it
update_select(p, key, lang, text) ==
    LET at == selected(key, lang)
        i == CHOOSE j \in at : TRUE
    IN /\ tx[p].pc = "idle"
       /\ IF Cardinality(at) > 1
          THEN /\ last' = [op |-> "update", key |-> key, lang |-> lang, text |-> text,
                           status |-> 500]
               /\ UNCHANGED tx
          ELSE IF at = {}
          THEN /\ last' = [op |-> "update", key |-> key, lang |-> lang, text |-> text,
                           status |-> 404]
               /\ UNCHANGED tx
          ELSE /\ tx' = [tx EXCEPT ![p] =
                           [pc |-> "update", lang |-> lang,
                            arg |-> <<[key |-> key, text |-> text]>>,
                            next |-> 1, own |-> {},
                            batch |-> <<[key |-> key, text |-> rows[i].text]>>,
                            at |-> i]]
               /\ UNCHANGED last
       /\ UNCHANGED rows
       /\ UNCHANGED settings

\* the end of POST /update where a blank text removes the row
update_commit_delete(p) ==
    LET e == tx[p].arg[1]
        i == tx[p].at
        gone == IF e.text # tx[p].batch[1].text /\ strip(e.text) = << >> THEN {i} ELSE {}
    IN /\ tx[p].pc = "update"
       /\ rows' = IF e.text = tx[p].batch[1].text
                  THEN rows
                  ELSE IF strip(e.text) = << >>
                  THEN SubSeq(rows, 1, i - 1) \o SubSeq(rows, i + 1, Len(rows))
                  ELSE [rows EXCEPT ![i].text = e.text]
       /\ tx' = [q \in Procs |->
                   IF q = p THEN Idle
                   ELSE [tx[q] EXCEPT !.own = shifted(@, gone),
                                      !.at = shift(@, gone)]]
       /\ last' = [op |-> "update", key |-> e.key, lang |-> tx[p].lang,
                   text |-> e.text, status |-> 200]
       /\ UNCHANGED settings

\* the end of POST /update: translation.text = data.text marks the row loaded
\* as changed only when the text differs from the one the SELECT loaded; on
\* leaving session.begin() the flush writes a changed row by an UPDATE (none
\* for an unchanged one, whatever the table holds by then), the transaction
\* is committed and the request answered
update_commit(p) ==
    LET e == tx[p].arg[1]
    IN /\ tx[p].pc = "update"
       /\ rows' = IF e.text = tx[p].batch[1].text
                  THEN rows
                  ELSE [rows EXCEPT ![tx[p].at].text = e.text]
       /\ tx' = [tx EXCEPT ![p] = Idle]
       /\ last' = [op |-> "update", key |-> e.key, lang |-> tx[p].lang,
                   text |-> e.text, status |-> 200]
       /\ UNCHANGED settings

\* one call of translate_with_gpt(ru_translations, target_lang): it raises when
\* the capability does, else it returns the mapping parsed from the response
translate_call(ru_translations, target_lang, resp) ==
    /\ last' = IF ~resp.ok
               THEN [op |-> "translate", lang |-> target_lang, raised |-> TRUE]
                      @@ exchange(ru_translations, resp)
               ELSE [op |-> "translate", lang |-> target_lang, raised |-> FALSE,
                     result |-> translate_with_gpt(ru_translations, target_lang, resp)]
                      @@ exchange(ru_translations, resp)
    /\ UNCHANGED <<rows, tx>>
    /\ UNCHANGED settings

\* a request slot that is serving no toggle_button call
NoToggle == [pc |-> "idle", key |-> "", at |-> 0, seen |-> FALSE]

\* toggle_button up to the return of its SELECT: scalar_one_or_none() gives
\* the row of the key or None, and raises MultipleResultsFound (answered 500)
\* when several rows hold the key
toggle_select(p, button_key) ==
    LET at == { i \in DOMAIN buttons : buttons[i].button_key = button_key }
        i == CHOOSE j \in at : TRUE
    IN /\ toggles[p].pc = "idle"
       /\ IF Cardinality(at) > 1
          THEN /\ last' = [op |-> "toggle", key |-> button_key, status |-> 500]
               /\ UNCHANGED toggles
          ELSE IF at = {}
          THEN /\ toggles' = [toggles EXCEPT ![p] =
                                [pc |-> "absent", key |-> button_key, at |-> 0,
                                 seen |-> FALSE]]
               /\ UNCHANGED last
          ELSE /\ toggles' = [toggles EXCEPT ![p] =
                                [pc |-> "found", key |-> button_key, at |-> i,
                                 seen |-> buttons[i].is_visible]]
               /\ UNCHANGED last
       /\ UNCHANGED <<rows, tx, buttons>>

\* await session.commit() of toggle_button and the redirect: the row found is
\* given the negation of the value read, or a new hidden row is inserted
toggle_commit(p) ==
    /\ toggles[p].pc \in {"found", "absent"}
    /\ buttons' = IF toggles[p].pc = "found"
                  THEN [buttons EXCEPT ![toggles[p].at].is_visible = ~toggles[p].seen]
                  ELSE Append(buttons, [button_key |-> toggles[p].key,
                                        is_visible |-> FALSE])
    /\ toggles' = [toggles EXCEPT ![p] = NoToggle]
    /\ last' = [op |-> "toggle", key |-> toggles[p].key, status |-> 303]
    /\ UNCHANGED <<rows, tx>>

(* ---------------------------- specification ---------------------------- *)

\* the database after create_all: no translations; no request has been served
Init ==
    /\ rows = << >>
    /\ last = [op |-> "none"]
    /\ tx = [p \in Procs |-> Idle]
    /\ buttons = << >>
    /\ toggles = [p \in Procs |-> NoToggle]

\* the table stays within n rows over this step
Within(n) == Len(rows') <= n

\* request bodies with one entry
Singles(ks, ts) == { <<e>> : e \in Entries(ks, ts) }

\* keys of the entries saved: the reserved key and another
PageKeys == {"welcome", "greeting"}

\* the text of the entries saved where the text is not what is looked at
CoverageTexts == {<<"a">>}

\* outcomes of the capability call: it failed, or it returned no line
CoverageResponses == {Failure, [ok |-> TRUE, lines |-> << >>]}

Save ==
    \E p \in Procs, lang \in SaveLangs, m \in Singles(PageKeys, CoverageTexts) :
        save_begin(p, lang, m)

GptUnknown == \E lang \in LangCodes : gpt_translation_unknown(lang)

Gpt == \E p \in Procs, lang \in LangCodes : gpt_select(p, lang)

Reply == \E p \in Procs, resp \in CoverageResponses : gpt_reply(p, resp)

InsertStep == \E p \in Procs : insert_step(p) /\ Within(MaxRows)

Commit == \E p \in Procs : commit(p)

ShowPlain == \E code \in AddParams : show_translations_plain(code)

Show ==
    \E code \in AddParams, resp \in CoverageResponses : show_translations(code, resp)

MissingUnknown == \E lang \in LangCodes : translate_missing_unknown(lang)

Missing ==
    \E lang \in LangCodes, resp \in CoverageResponses : translate_missing(lang, resp)

Next ==
    Save \/ GptUnknown \/ Gpt \/ Reply \/ InsertStep \/ Commit
        \/ ShowPlain \/ Show \/ MissingUnknown \/ Missing

\* every request on the catalog, served by concurrent tasks that are
\* interleaved at their awaits
Spec == Init /\ [][Next]_vars

(* ------------------- the commit path of one language ------------------- *)

\* the target language of the commits
CommitLangs == {"en"}

\* keys of the entries committed
CommitKeys == {"greeting", "bye"}

\* texts of the entries committed: empty, whitespace-only, non-blank
CommitTexts == {<< >>, <<" ">>, <<"a">>}

\* outcomes of the capability call: it failed, or it returned one "key: text"
\* line with a text that is blank or not
CommitResponses ==
    {Failure} \cup
    { [ok |-> TRUE, lines |-> <<[colon |-> TRUE, k |-> "greeting", v |-> v]>>] :
        v \in RespTexts }

SaveCommit ==
    \E p \in Procs, lang \in CommitLangs, m \in MappingsOver(CommitKeys, CommitTexts) :
        save_begin(p, lang, m)

GptCommit == \E p \in Procs, lang \in CommitLangs : gpt_select(p, lang)

ReplyCommit == \E p \in Procs, resp \in CommitResponses : gpt_reply(p, resp)

NextCommit ==
    SaveCommit \/ GptCommit \/ ReplyCommit \/ InsertStep \/ Commit \/ GptUnknown

\* save and full-backfill requests for one language
SpecCommit == Init /\ [][NextCommit]_vars

(* --------------------------- the coverage page ------------------------- *)

NextCoverage == Save \/ InsertStep \/ Commit \/ ShowPlain \/ Show

\* the catalog filled by save requests and read by the translations page
SpecCoverage == Init /\ [][NextCoverage]_vars

(* ------------------------ preview and full backfill -------------------- *)

\* outcomes of the capability call: it failed, it returned no line, a line
\* without a colon, or one "key: text" line
BackfillResponses ==
    {Failure,
     [ok |-> TRUE, lines |-> << >>],
     [ok |-> TRUE, lines |-> <<[colon |-> FALSE, k |-> "", v |-> <<"a">>]>>],
     [ok |-> TRUE, lines |-> <<[colon |-> TRUE, k |-> "greeting",
                               v |-> <<" ", "a", "{flag}">>]>>]}

\* the key of the entries saved
ConcKeys == {"greeting"}

SaveSource ==
    \E p \in Procs, lang \in SaveLangs, m \in Singles(ConcKeys, CoverageTexts) :
        save_begin(p, lang, m)

ReplyBackfill == \E p \in Procs, resp \in BackfillResponses : gpt_reply(p, resp)

\* the languages previewed: one with rows in the table, one without
PreviewLangs == {"en", "de"}

ShowBackfill ==
    \E code \in PreviewLangs, resp \in BackfillResponses : show_translations(code, resp)

MissingBackfill ==
    \E lang \in PreviewLangs, resp \in BackfillResponses : translate_missing(lang, resp)

NextBackfill ==
    SaveSource \/ Gpt \/ ReplyBackfill \/ InsertStep \/ Commit \/ GptUnknown
        \/ MissingUnknown

\* saves of source and target entries and full backfills
SpecBackfill == Init /\ [][NextBackfill]_vars

(* -------------------------------- previews ----------------------------- *)

NextPreview == SaveSource \/ InsertStep \/ Commit \/ ShowBackfill \/ MissingBackfill

\* saves of source and target entries and previews of the backfill
SpecPreview == Init /\ [][NextPreview]_vars

(* ------------------------- source texts rewritten ---------------------- *)

\* texts of the source entries saved
SourceTexts == {<<"a">>, <<"b">>}

SaveRu ==
    \E p \in Procs, m \in Singles(ConcKeys, SourceTexts) : save_begin(p, "ru", m)

GptSource == \E p \in Procs, lang \in PreviewLangs : gpt_select(p, lang)

ShowSource ==
    \E code \in PreviewLangs, resp \in CoverageResponses : show_translations(code, resp)

MissingSource ==
    \E lang \in PreviewLangs, resp \in CoverageResponses : translate_missing(lang, resp)

NextSource ==
    SaveRu \/ InsertStep \/ Commit \/ GptSource \/ Reply \/ ShowSource \/ MissingSource

\* saves of source entries, and the three handlers that build a batch from them
SpecSource == Init /\ [][NextSource]_vars

(* ------------------------------ manual update -------------------------- *)

\* texts of an update request: whitespace-only and non-blank
UpdateTexts == {<<" ">>, <<"b">>}

SaveEdit ==
    \E p \in Procs, lang \in CommitLangs, m \in Singles(CommitKeys, CoverageTexts) :
        save_begin(p, lang, m)

MissingEdit ==
    \E lang \in CommitLangs, resp \in CoverageResponses : translate_missing(lang, resp)

Update ==
    \E p \in Procs, key \in CommitKeys, lang \in CommitLangs, text \in UpdateTexts :
        update_select(p, key, lang, text)

UpdateCommit == \E p \in Procs : update_commit(p)

\* outcomes of the capability call: it failed, or it returned one line
EditResponses ==
    {Failure,
     [ok |-> TRUE, lines |-> <<[colon |-> TRUE, k |-> "greeting",
                               v |-> <<" ", "a", "{flag}">>]>>]}

ReplyEdit == \E p \in Procs, resp \in EditResponses : gpt_reply(p, resp)

NextEdit ==
    SaveEdit \/ GptCommit \/ ReplyEdit \/ InsertStep \/ Commit
        \/ ShowPlain \/ MissingEdit \/ Update \/ UpdateCommit

\* every operation on the catalog of one language, manual update included
SpecEdit == Init /\ [][NextEdit]_vars

(* ------------------------- save for any language ----------------------- *)

SaveAny ==
    \E p \in Procs, lang \in LangCodes, m \in MappingsOver(CommitKeys, CoverageTexts) :
        save_begin(p, lang, m)

NextSave == SaveAny \/ InsertStep \/ Commit

\* save requests for any language code
SpecSave == Init /\ [][NextSave]_vars

(* ----------------------- translate_with_gpt alone ---------------------- *)

\* entries of the batch of one call
MaxPrompt == 3
\* lines of the response to one call
MaxReply == 2

\* batches of source entries
Batches ==
    UNION { { m \in [1..n -> Entries(Keys, CoverageTexts)] :
                \A i, j \in 1..n : i < j => KeyIndex(m[i].key) < KeyIndex(m[j].key) }
            : n \in 0..MaxPrompt }

\* a line of the response: without a colon, or "k: v" with the sentinel in v
ReplyLines ==
    {[colon |-> FALSE, k |-> "", v |-> <<"a">>]}
    \cup [colon : {TRUE}, k : RespKeys, v : {<<" ", "a", "{flag}">>}]

\* outcomes of the call: a failure, or up to MaxReply lines
Replies ==
    {Failure} \cup
    { [ok |-> TRUE, lines |-> ls] :
        ls \in UNION { [1..n -> ReplyLines] : n \in 0..MaxReply } }

\* target languages: one with a flag, one without
TargetLangs == {"en", "de"}

Translate ==
    \E b \in Batches, lang \in TargetLangs, resp \in Replies :
        translate_call(b, lang, resp)

NextTranslate == Translate

\* calls of translate_with_gpt on batches and responses of every shape
SpecTranslate == Init /\ [][NextTranslate]_vars

(* ------------------------ the languages of the view -------------------- *)

\* language codes of the entries saved: every language of the directory
ViewLangs == {"ru", "en", "de"}

\* the key of the entries saved: the languages shown do not depend on it
ViewKeys == {"greeting"}

SaveView ==
    \E p \in Procs, lang \in ViewLangs, m \in MappingsOver(ViewKeys, CoverageTexts) :
        save_begin(p, lang, m)

InsertCatalog == \E p \in Procs : insert_step(p) /\ Within(MaxCatalog)

NextView == SaveView \/ InsertCatalog \/ Commit \/ ShowPlain

\* saves for every language of the directory, and the translations page
SpecView == Init /\ [][NextView]_vars

(* --------------------------- the placeholder codec --------------------- *)

\* symbols of one text
MaxText == 4

\* source texts: a letter, a space and the flags of flags.json
SourceSymbols == {"a", " ", "FLAG_RU", "FLAG_EN"}

CodecTexts == UNION { [1..n -> SourceSymbols] : n \in 0..MaxText }

\* texts of a response line: a letter, a space and the sentinel
SafeSymbols == {"a", " ", "{flag}"}

SafeTexts == UNION { [1..n -> SafeSymbols] : n \in 0..MaxText }

\* safe_text = patch_flag(text) for one entry of the batch
encode_call(text) ==
    /\ last.op = "none"
    /\ last' = [op |-> "encode", text |-> text, safe_text |-> patch_flag(text)]
    /\ UNCHANGED <<rows, tx>>
    /\ UNCHANGED settings

\* final_text for a response line that gives the safe text back as it was sent
roundtrip_call(target_lang) ==
    /\ last.op = "encode"
    /\ last' = [op |-> "roundtrip", text |-> last.text, safe_text |-> last.safe_text,
                lang |-> target_lang,
                final_text |-> decode(last.safe_text, target_lang)]
    /\ UNCHANGED <<rows, tx>>
    /\ UNCHANGED settings

\* final_text for a response line with the text v after its colon
decode_call(v, target_lang) ==
    /\ last.op = "none"
    /\ last' = [op |-> "decode", v |-> v, lang |-> target_lang,
                final_text |-> decode(v, target_lang)]
    /\ UNCHANGED <<rows, tx>>
    /\ UNCHANGED settings

Encode == \E text \in CodecTexts : encode_call(text)

Roundtrip == \E lang \in TargetLangs : roundtrip_call(lang)

Decode == \E v \in SafeTexts, lang \in TargetLangs : decode_call(v, lang)

NextCodec == Encode \/ Roundtrip \/ Decode

\* one text through patch_flag and back, or one response text decoded
SpecCodec == Init /\ [][NextCodec]_vars

(* ----------------------- commits of one pair ---------------------------- *)

\* mappings of the commit requests for one (key, language) pair
ConcMappings == MappingsOver(ConcKeys, Texts)

\* the target language of the requests
ConcLangs == {"en"}

SaveBegin == \E p \in Procs, lang \in ConcLangs, m \in ConcMappings : save_begin(p, lang, m)

ReplyConc == \E p \in Procs, resp \in Responses : gpt_reply(p, resp)

NextConc == SaveBegin \/ GptCommit \/ ReplyConc \/ InsertStep \/ Commit

\* save and full-backfill requests that insert the same pair
SpecConc == Init /\ [][NextConc]_vars

(* ------------------------- inserts that fail --------------------------- *)

SaveStorage ==
    \E p \in Procs, lang \in ConcLangs, m \in MappingsOver(CommitKeys, CoverageTexts) :
        save_begin(p, lang, m)

InsertFails == \E p \in Procs : insert_fails(p)

\* rows ever inserted: two requests of two entries each run to their end
MaxStored == 4

InsertStored == \E p \in Procs : insert_step(p) /\ Within(MaxStored)

NextStorage ==
    SaveStorage \/ GptCommit \/ ReplyBackfill \/ InsertStored \/ InsertFails \/ Commit

\* commit calls any insert of which may fail
SpecStorage == Init /\ [][NextStorage]_vars

(* --------------------------- the settings page ------------------------- *)

\* rows ever inserted into the button_visibility table
MaxButtons == 3

\* the buttons of the settings page
ButtonKeys == {"buy", "help"}

ToggleSelect == \E p \in Procs, key \in ButtonKeys : toggle_select(p, key)

ToggleCommit == \E p \in Procs : toggle_commit(p) /\ Len(buttons') <= MaxButtons

NextToggle == ToggleSelect \/ ToggleCommit

\* toggle_button requests served by concurrent tasks
SpecToggle == Init /\ [][NextToggle]_vars

(* ------------------------------- claims -------------------------------- *)

\* the rows of the pair (k, l), by position
rows_of(t, k, l) == { i \in DOMAIN t : t[i].key = k /\ t[i].lang = l }

\* the catalog as the reading handlers see it
catalog == committed(rows, tx)

\* the catalog after the step
catalog_after == committed(rows', tx')

\* over this step a request that was at `pc` is answered and its slot freed
answered(pc) == \E p \in Procs : tx[p].pc = pc /\ tx'[p].pc = "idle"

\* over this step a request is served from its SELECT to its response
served == tx' = tx /\ last' # last

\* C1: a commit never replaces or shadows an existing entry: the text read
\* for a (key, language) pair is the text of the first row written for it.
C1_FirstWriteWins ==
    \A k \in keys_of(catalog) : \A l \in langs_of(catalog, k) :
        text_of(catalog, k, l)
          = catalog[CHOOSE i \in rows_of(catalog, k, l) :
                      \A j \in rows_of(catalog, k, l) : i <= j].text

\* C2: a save request that repeats the language and the mapping of the save
\* request answered just before it leaves the catalog as it was after that one
\* and reports a persisted count of 0.
C2_SecondSaveIsNoOp ==
    [][ (/\ last.op = "save"
         /\ answered("save")
         /\ last'.op = "save"
         /\ last'.lang = last.lang
         /\ last'.arg = last.arg)
        => (catalog_after = catalog /\ last'.saved = 0) ]_vars

\* C3: of the requests that are inserting the same (key, language) pair at the
\* same time, one adds the row and the others add nothing: no two open
\* transactions each own a row of the same pair.
C3_OneWinner ==
    \A p, q \in Procs :
        p # q =>
            \A i \in tx[p].own : \A j \in tx[q].own :
                ~(rows[i].key = rows[j].key /\ rows[i].lang = rows[j].lang)

\* C4: the count a commit returns ("saved", "added") is the number of rows the
\* call added to the table.
C4_CountIsRowsAdded ==
    [][ /\ (answered("save") /\ last'.op = "save"
              => last'.saved = Len(catalog_after) - Len(catalog))
        /\ (answered("gpt") /\ last'.op = "gpt" /\ last'.status = 200
              => last'.added = Len(catalog_after) - Len(catalog)) ]_vars

\* C5: every row a step adds to the table has a text that is neither empty
\* nor all whitespace.
C5_NoBlankRowAdded ==
    [][ \A i \in (Len(rows) + 1)..Len(rows') : strip(rows'[i].text) # << >> ]_vars

\* a save request with a blank entry and a non-blank one has been served, and
\* the row of the non-blank entry is in the table
C5_Witness ==
    /\ last.op = "save"
    /\ \E i \in DOMAIN last.arg : strip(last.arg[i].text) = << >>
    /\ \E i \in DOMAIN last.arg :
          /\ strip(last.arg[i].text) # << >>
          /\ rows_of(catalog, last.arg[i].key, last.lang) # {}

\* C6: for every catalog and every language shown, filled + missing = total,
\* and neither count is negative.
C6_FilledPlusMissingIsTotal ==
    /\ \A code \in AddParams :
          \A c \in DOMAIN filled_count(catalog, code) :
              /\ filled_count(catalog, code)[c] + missing_count(catalog, code)[c]
                   = total_keys(catalog)
              /\ filled_count(catalog, code)[c] >= 0
              /\ missing_count(catalog, code)[c] >= 0
    /\ (last.op = "show" /\ last.status = 200) =>
          \A c \in DOMAIN last.filled_count :
              /\ last.filled_count[c] + last.missing_count[c] = last.total_keys
              /\ last.filled_count[c] >= 0
              /\ last.missing_count[c] >= 0

\* the page shows a language with a filled key and a language with a missing
\* key, over a catalog that holds a "welcome" row
C6_Witness ==
    /\ last.op = "show"
    /\ last.status = 200
    /\ "welcome" \in keys_of(catalog)
    /\ \E c \in DOMAIN last.filled_count : last.filled_count[c] > 0
    /\ \E c \in DOMAIN last.missing_count : last.missing_count[c] > 0

\* C7: whenever the page shows the source language "ru", its missing count
\* is 0.
C7_SourceLanguageComplete ==
    (last.op = "show" /\ last.status = 200 /\ "ru" \in DOMAIN last.missing_count)
        => last.missing_count["ru"] = 0

\* C8: total_keys is the number of distinct keys that have a "ru" row, less
\* "welcome".
C8_TotalIsSourceKeys ==
    (last.op = "show" /\ last.status = 200)
        => last.total_keys
             = Cardinality({ k \in keys_of(catalog) :
                               k # "welcome" /\ "ru" \in langs_of(catalog, k) })

\* the catalog with every row of the key "welcome" removed
no_welcome == SelectSeq(catalog, LAMBDA r : r.key # "welcome")

\* C9: the rows of the key "welcome" contribute nothing: the total, and the
\* filled and missing counts of every language shown, are those of the catalog
\* with the "welcome" rows removed.
C9_WelcomeNeverCounts ==
    /\ total_keys(catalog) = total_keys(no_welcome)
    /\ \A code \in AddParams :
          \A c \in DOMAIN filled_count(catalog, code) :
              /\ filled_count(catalog, code)[c] = filled_of(no_welcome, c)
              /\ missing_count(catalog, code)[c]
                   = total_keys(no_welcome) - filled_of(no_welcome, c)
    /\ (last.op = "show" /\ last.status = 200) =>
          /\ last.total_keys = total_keys(no_welcome)
          /\ \A c \in DOMAIN last.filled_count :
                last.filled_count[c] = filled_of(no_welcome, c)

\* the page is shown over a catalog that holds a "welcome" row of a language
\* on the page and a row of another key
C9_Witness ==
    /\ last.op = "show"
    /\ last.status = 200
    /\ \E i \in DOMAIN catalog :
          catalog[i].key = "welcome" /\ catalog[i].lang \in DOMAIN last.filled_count
    /\ no_welcome # << >>

\* C10: the keys translate_missing sends for a target language are the keys
\* with a "ru" row, without a row of the target language, other than "welcome".
C10_MissingKeysExcludeWelcome ==
    (last.op = "missing" /\ last.calls = 1)
        => dict_keys(last.batch)
             = { k \in keys_of(catalog) :
                   /\ "ru" \in langs_of(catalog, k)
                   /\ last.lang \notin langs_of(catalog, k)
                   /\ k # "welcome" }

\* the language a preview request names
target_of(request) == IF request.op = "show" THEN request.add ELSE request.lang

\* C11: a preview backfill (GET /translations?add=<lang> and GET
\* /translations/translate_missing) leaves the stored entries as they were, and
\* with them the filled count of the target language
C11_PreviewLeavesCatalog ==
    [][(served /\ last'.op \in {"show", "missing"}) =>
         /\ rows' = rows
         /\ filled_of(catalog_after, target_of(last'))
              = filled_of(catalog, target_of(last'))]_vars

\* a preview returned a translation for a key the target language does not hold
C11_Witness ==
    /\ last.op = "show" /\ last.status = 200 /\ last.calls = 1
    /\ last.temp_translations # << >>
    /\ \A i \in DOMAIN last.temp_translations :
          /\ "ru" \in langs_of(catalog, last.temp_translations[i].key)
          /\ last.add \notin langs_of(catalog, last.temp_translations[i].key)

\* C12: when the capability call fails during a full backfill commit, the
\* request ends there with one error response, and the table is left as it
\* was: the request had inserted nothing and inserts nothing
C12_FailedBackfillWritesNothing ==
    [][\A p \in Procs :
         (tx[p].pc = "translate" /\ tx'[p].pc = "idle") =>
            /\ last'.op = "gpt" /\ last'.status = 500 /\ ~last'.resp.ok
            /\ tx[p].own = {}
            /\ rows' = rows
            /\ catalog_after = catalog]_vars

\* a full backfill with source entries to translate met a failing capability
C12_Witness ==
    /\ last.op = "gpt" /\ get_language(last.lang) # None
    /\ last.status = 500
    /\ ~last.resp.ok /\ last.calls = 1
    /\ last.batch # << >>

\* the capability answered, and no line of its output is a "key: text" line
unparseable(resp) ==
    /\ resp.ok
    /\ resp.lines # << >>
    /\ \A i \in DOMAIN resp.lines : ~resp.lines[i].colon

\* C13: a call of translate_with_gpt whose capability output cannot be parsed
\* as "key: text" lines raises instead of returning a result mapping
C13_UnparseableOutputRaises ==
    (last.op = "translate" /\ unparseable(last.resp)) => last.raised

\* C14: every call of translate_with_gpt sends the capability exactly one
\* request, holding one line per entry of the batch in the batch's order,
\* whether the capability fails or answers with any number of lines
C14_OneCallWholeBatch ==
    last.op = "translate" =>
        /\ Len(last.sent) = 1
        /\ [i \in DOMAIN last.sent[1] |-> last.sent[1][i].key]
             = [i \in DOMAIN last.batch |-> last.batch[i].key]

\* a call with a batch of several entries whose capability call failed
C14_Witness ==
    /\ last.op = "translate" /\ last.raised
    /\ Len(last.batch) >= 2
    /\ last.calls = 1

\* C15: a preview backfill (translate_missing) or a full backfill commit whose
\* language code is not in the language directory ends in an error response,
\* without a call of the capability and without a change of the table
C15_UnknownLanguageNoEffect ==
    [][/\ (served /\ last'.op \in {"gpt", "missing"}
               /\ get_language(last'.lang) = None)
          => /\ last'.status \in {404, 500}
             /\ last'.calls = 0
             /\ rows' = rows
       /\ \A p \in Procs :
             tx'[p].pc \in {"translate", "gpt"} => get_language(tx'[p].lang) # None]_vars

\* a full backfill for an unknown language over a table with source entries
C15_Witness ==
    /\ last.op = "gpt" /\ get_language(last.lang) = None
    /\ last.status = 500 /\ last.calls = 0
    /\ \E i \in DOMAIN catalog : catalog[i].lang = "ru"

\* C16: every language code stored in the table by a save request is a code
\* of the language directory (a save for any other code is rejected)
C16_StoredLanguagesKnown ==
    \A i \in DOMAIN catalog : get_language(catalog[i].lang) # None

\* C17: a full backfill commit or a preview backfill whose language lookup
\* finds no language answers with the not-found status itself
C17_UnknownLanguageIsNotFound ==
    (last.op \in {"gpt", "missing"} /\ get_language(last.lang) = None)
        => last.status = 404

\* the (key, language) pairs present in a table
pairs(t) == { <<t[i].key, t[i].lang>> : i \in DOMAIN t }

\* C18: no operation (coverage page, preview backfill, save, full backfill
\* commit, manual update) deletes an entry: over every step the set of
\* (key, language) pairs of the table grows or stays the same
C18_NoEntryDeleted ==
    [][pairs(rows) \subseteq pairs(rows') /\ pairs(catalog) \subseteq pairs(catalog_after)]_vars

\* a manual update has overwritten the text of an entry with a blank text, and
\* the entry is still there
C18_Witness ==
    /\ last.op = "update" /\ last.status = 200
    /\ strip(last.text) = << >>
    /\ <<last.key, last.lang>> \in pairs(catalog)
    /\ \E i \in DOMAIN catalog :
          /\ catalog[i].key = last.key /\ catalog[i].lang = last.lang
          /\ catalog[i].text = last.text
    /\ Len(catalog) >= 2

\* the keys of the "key: text" lines of a response
response_keys(resp) ==
    { resp.lines[i].k : i \in { j \in DOMAIN resp.lines : resp.lines[j].colon } }

\* C19: the mapping translate_with_gpt returns holds exactly the keys of the
\* "key: text" lines of the response; a key of the batch the response does
\* not hold is not in the result
C19_ResultKeysAreResponseKeys ==
    (last.op = "translate" /\ ~last.raised) =>
        /\ dict_keys(last.result) = response_keys(last.resp)
        /\ Len(last.result) = Cardinality(response_keys(last.resp))

\* a batch of 3 keys, a response covering 2 of them, a result with those 2
C19_Witness ==
    /\ last.op = "translate" /\ ~last.raised
    /\ Len(last.batch) = 3
    /\ Cardinality(response_keys(last.resp)) = 2
    /\ response_keys(last.resp) \subseteq dict_keys(last.batch)
    /\ dict_keys(last.result) = response_keys(last.resp)

\* C20: the batch a handler (translate_missing, the preview of
\* show_translations, gpt_translation_handler) hands to translate_with_gpt
\* holds only keys with a "ru" entry, each with the "ru" text the catalog has
\* for it when the request is served
C20_BatchIsSourceText ==
    [][/\ (served /\ last'.op \in {"show", "missing"} /\ last'.calls = 1) =>
             \A i \in DOMAIN last'.batch :
                /\ "ru" \in langs_of(catalog, last'.batch[i].key)
                /\ last'.batch[i].text = text_of(catalog, last'.batch[i].key, "ru")
       /\ \A p \in Procs :
             (tx[p].pc = "idle" /\ tx'[p].pc = "translate") =>
                \A i \in DOMAIN tx'[p].batch :
                   /\ "ru" \in langs_of(catalog, tx'[p].batch[i].key)
                   /\ tx'[p].batch[i].text
                        = text_of(catalog, tx'[p].batch[i].key, "ru")]_vars

\* the flags of flags.json
flag_values == { flags[c] : c \in DOMAIN flags }

\* positions of a text that hold a flag preceded by a space or at its end
qualifying(text) ==
    { i \in DOMAIN text :
        /\ text[i] \in flag_values
        /\ (i = Len(text) \/ (i > 1 /\ text[i - 1] = " ")) }

\* positions where two texts of the same length differ
changed(text, out) == { i \in DOMAIN text : out[i] # text[i] }

\* C21: patch_flag puts the sentinel in place of the first qualifying flag of a
\* text only; every other symbol, the other flags included, stays as it was
C21_OnlyFirstOccurrencePatched ==
    (last.op = "encode" /\ qualifying(last.text) # {}) =>
        /\ Len(last.safe_text) = Len(last.text)
        /\ Cardinality(changed(last.text, last.safe_text)) = 1
        /\ \A i \in changed(last.text, last.safe_text) :
              /\ last.safe_text[i] = Sentinel
              /\ i \in qualifying(last.text)
              /\ \A j \in qualifying(last.text) : i <= j

\* the marker of a target language: its flag, else its code in upper case
marker_of(lang) == IF lang \in DOMAIN flags THEN <<flags[lang]>> ELSE upper(lang)

\* the positions of a text that hold the sentinel
sentinels(t) == { i \in DOMAIN t : t[i] = Sentinel }

\* C22: the text decoded from a response line holds the target language's
\* marker (its flag, else its upper-cased code) in place of every sentinel:
\* no sentinel remains and everything else of the line's text is kept
C22_EverySentinelDecoded ==
    last.op = "decode" =>
        LET sv == strip(last.v)
            mk == marker_of(last.lang)
            n == Cardinality(sentinels(sv))
        IN /\ sentinels(last.final_text) = {}
           /\ Len(last.final_text) = Len(sv) - n + n * Len(mk)
           /\ SelectSeq(last.final_text, LAMBDA c : c \in {"a", " "})
                = SelectSeq(sv, LAMBDA c : c # Sentinel)
           /\ \A i \in DOMAIN last.final_text :
                 last.final_text[i] \in {"a", " "} \/
                 \E j \in DOMAIN mk : last.final_text[i] = mk[j]

\* a text with two sentinels decoded for a language without a registered flag
C22_Witness ==
    /\ last.op = "decode" /\ last.lang = "de"
    /\ Cardinality(sentinels(last.v)) = 2
    /\ sentinels(last.final_text) = {}
    /\ Len(last.final_text) > Len(strip(last.v))

\* C23: a text without a qualifying flag position leaves patch_flag as it
\* entered, and decoding it for any target language gives the text back
C23_RoundTripWithoutFlag ==
    (last.op \in {"encode", "roundtrip"} /\ qualifying(last.text) = {}) =>
        /\ last.safe_text = last.text
        /\ last.op = "roundtrip" => last.final_text = last.text

\* the codes of the language directory
directory_codes == { all_langs[i].code : i \in DOMAIN all_langs }

\* C24: the languages of the translations view are, for a preview target of
\* the directory, the source language and the target (one language when the
\* target is the source), else the directory's languages that have a row
C24_LanguagesSelected ==
    (last.op = "show" /\ last.status = 200) =>
        /\ { last.langs[i] : i \in DOMAIN last.langs }
             = IF last.add \in directory_codes
               THEN {"ru", last.add}
               ELSE directory_codes \cap used_lang_codes(catalog)
        /\ \A i, j \in DOMAIN last.langs : last.langs[i] = last.langs[j] => i = j

\* a preview for a language without rows while another target language has rows
C24_Witness ==
    /\ last.op = "show" /\ last.status = 200
    /\ last.add = "de"
    /\ used_lang_codes(catalog) = {"ru", "en"}
    /\ Len(last.langs) = 2

\* the display name of a language of the directory, by its code
name_ru_of(code) == get_language(code).name_ru

\* C25: in the languages of the translations view "ru" comes first when it
\* is among them, and the others follow in ascending order of name_ru
C25_SourceFirstThenByName ==
    (last.op = "show" /\ last.status = 200) =>
        /\ \A i \in DOMAIN last.langs : last.langs[i] = "ru" => i = 1
        /\ \A i, j \in DOMAIN last.langs :
              (i < j /\ last.langs[i] # "ru" /\ last.langs[j] # "ru")
                 => ~str_lt(name_ru_of(last.langs[j]), name_ru_of(last.langs[i]))

\* the page shows the source language and two others, which the directory
\* holds in another order than that of their names
C25_Witness ==
    /\ last.op = "show" /\ last.status = 200
    /\ last.langs = <<"ru", "en", "de">>

\* C26: every key of the mapping translate_with_gpt returns is a key of the
\* batch it was called with
C26_ResultKeysWereRequested ==
    (last.op = "translate" /\ ~last.raised) =>
        dict_keys(last.result) \subseteq dict_keys(last.batch)

\* the coverage record show_translations computes for a language
coverage_record(t, code) ==
    [total |-> total_keys(t), filled |-> filled_of(t, code),
     missing |-> total_keys(t) - filled_of(t, code)]

\* the rows of a table that hold a language
rows_in(t, code) == SelectSeq(t, LAMBDA r : r.lang = code)

\* C27: a commit (save or full backfill) for a target language L other than
\* the source language leaves the rows of every other language as they were,
\* and with them the coverage record (total, filled, missing) of every other
\* language
C27_CommitLeavesOtherLanguages ==
    [][((answered("save") \/ answered("gpt"))
          /\ last'.op \in {"save", "gpt"} /\ last'.status = 200 /\ last'.lang # "ru") =>
         \A other \in directory_codes \ {last'.lang} :
            /\ rows_in(catalog_after, other) = rows_in(catalog, other)
            /\ coverage_record(catalog_after, other) = coverage_record(catalog, other)]_vars

\* C28: a manual update of an existing (key, language) pair is answered 200,
\* gives the pair the supplied text and leaves every other row as it was; for
\* a pair that does not exist it is answered 404 and leaves the table as it was
C28_UpdateOnlyNamedPair ==
    [][((served \/ answered("update")) /\ last'.op = "update") =>
         IF <<last'.key, last'.lang>> \in pairs(catalog)
         THEN /\ last'.status = 200
              /\ Len(catalog_after) = Len(catalog)
              /\ \A i \in DOMAIN catalog :
                    IF catalog[i].key = last'.key /\ catalog[i].lang = last'.lang
                    THEN catalog_after[i] = [catalog[i] EXCEPT !.text = last'.text]
                    ELSE catalog_after[i] = catalog[i]
         ELSE last'.status = 404 /\ catalog_after = catalog]_vars

\* C29: when an insert of a commit call (save or full backfill) fails, the
\* call is answered with an error and the catalog is what it was before the
\* call: none of the rows the call had inserted is persisted
C29_FailedCommitPersistsNothing ==
    [][(last'.op \in {"save", "gpt"} /\ last'.status = 500) =>
         catalog_after = catalog]_vars

\* an insert failed after the call had inserted a row
C29_Witness ==
    /\ last.op = "save" /\ last.status = 500
    /\ last.inserted >= 1

\* the rows of the button_visibility table that hold a key
button_rows(key) == { i \in DOMAIN buttons : buttons[i].button_key = key }

\* C30: whatever the interleaving of the toggle_button requests for a key, at
\* most one row of button_visibility holds the key
C30_OneRowPerButton ==
    \A key \in ButtonKeys : Cardinality(button_rows(key)) <= 1

====
